---- MODULE Spec2Model ----
(***************************************************************************)
(* flashrom programmer for the Promise PDC2026x ATA controllers            *)
(* (atapromise).  The repository holds several revisions of the driver;    *)
(* the variable rev selects the one that is built:                         *)
(*   "atapromise"   src/atapromise.c, lines 1-259                          *)
(*   "part_000"     src/unnamed/part_000                                   *)
(*   "part_001"     src/unnamed/part_001                                   *)
(*   "part_002"     src/unnamed/part_002, lines 1-360                      *)
(*   "part_002_ro"  src/unnamed/part_002, lines 362-550                    *)
(* The model covers init (the upstream bridge window fix-up, the ROM size  *)
(* probe, the mapping), shutdown, the one-shot chip descriptor fix-up, the *)
(* byte transport (chip_readb / chip_writeb) and the program-command       *)
(* tracker of chip_writeb.                                                 *)
(*                                                                         *)
(* 32-bit quantities that can exceed 2^31 (BAR5, the port word) are kept   *)
(* as two 16-bit halves [hi, lo].                                          *)
(***************************************************************************)
EXTENDS Integers, Naturals, Sequences, FiniteSets, TLC

VARIABLES
    rev,                      \* the revision of the driver that is built
    env,                      \* what the OS, the PCI library and the user parameters return
    pci_devs,                 \* dev->access->devices: config space of the other PCI functions
    chips,                    \* the struct flashchip descriptors the caller passes in
    phase,                    \* "start", then "ready" (init returned 0) or "failed"
    io_base_addr,             \* static uint32_t io_base_addr
    rom_base_addr,            \* static uint32_t rom_base_addr, as [hi, lo]
    rom_size,                 \* static size_t rom_size      (atapromise.c)
    maplen,                   \* static size_t maplen        (part_002)
    atapromise_bar,           \* static uint8_t *atapromise_bar (phys in part_001, part_002_ro)
    mapped_len,               \* the length of the mapping physmap established (0: none)
    rom_reg,                  \* the controller's config register 0x30 (PCI_ROM_ADDRESS), as [hi, lo]
    shutdown_registered,      \* register_shutdown(atapromise_shutdown) succeeded
    shutdowns,                \* how many times atapromise_shutdown has run
    unmaps,                   \* the physunmap calls so far: [ptr, len]
    bios_rom_addr_data,       \* static uint32_t bios_rom_addr_data (part_002)
    max_rom_decode_parallel,  \* max_rom_decode.parallel as set by this driver (0: not set)
    registered,               \* register_par_master was called
    once,                     \* static bool once (atapromise.c) / called (part_002)
    program_cmd_idx,          \* static unsigned int program_cmd_idx (part_002)
    io,                       \* the hardware accesses of the most recent call
    wlog,                     \* the run of writes spelling the unlock sequence (see LogWrite)
    snap                      \* each descriptor as it was when its first access returned

vars == <<rev, env, pci_devs, chips, phase, io_base_addr, rom_base_addr, rom_size,
          maplen, atapromise_bar, mapped_len, rom_reg, shutdown_registered, shutdowns,
          unmaps, bios_rom_addr_data, max_rom_decode_parallel,
          registered, once, program_cmd_idx, io, wlog, snap>>

----------------------------------------------------------------------------
(* Program constants.                                                      *)

MAX_ROM_DECODE == 32 * 1024

PROMISE_MAX_ROM_DECODE == 32 * 1024

ADDR_MASK == MAX_ROM_DECODE - 1

PROMISE_ADDR_MASK == PROMISE_MAX_ROM_DECODE - 1

\* PROMISE_ADDR_MASK of part_000 (0x1ffff)
PROMISE_ADDR_MASK_000 == 2 ^ 17 - 1

\* The range of uint16_t, and of uint8_t.
Word16 == 2 ^ 16

Byte == 2 ^ 8

PCI_HEADER_TYPE_BRIDGE == 1

\* The loop counter of the read-back loop starts here (unsigned int i = 30).
ReadbackStart == 30

----------------------------------------------------------------------------
(* Bounds of the model.                                                    *)

\* NUM_ERASEFUNCTIONS of flash.h (8 in flashrom); the loops run over this many slots.
NUM_ERASEFUNCTIONS == 3

\* How many chip descriptors the caller may pass in during one session.
NumChips == 2

\* The longest dev->access->devices list.
MaxDevs == 2

\* How many times the shutdown function may be invoked in one session.
MaxShutdowns == 2

----------------------------------------------------------------------------
(* Bit operations of C on non-negative integers.                           *)

RECURSIVE BitAnd(_, _)
BitAnd(a, b) ==
    IF a = 0 \/ b = 0 THEN 0
    ELSE (a % 2) * (b % 2) + 2 * BitAnd(a \div 2, b \div 2)

RECURSIVE BitOr(_, _)
BitOr(a, b) ==
    IF a = 0 THEN b
    ELSE IF b = 0 THEN a
    ELSE (IF a % 2 = 1 \/ b % 2 = 1 THEN 1 ELSE 0) + 2 * BitOr(a \div 2, b \div 2)

\* uint32_t x + a, for a < 2^16
Add32(x, a) ==
    LET lo == x.lo + a
    IN [hi |-> (x.hi + lo \div Word16) % Word16, lo |-> lo % Word16]

\* uint32_t x << 8
Shl8(x) ==
    [hi |-> (x.hi % Byte) * Byte + x.lo \div Byte, lo |-> (x.lo % Byte) * Byte]

\* uint32_t x | v, for v < 2^16
Or32(x, v) == [hi |-> x.hi, lo |-> BitOr(x.lo, v)]

\* uint32_t x | y
OrWord32(x, y) == [hi |-> BitOr(x.hi, y.hi), lo |-> BitOr(x.lo, y.lo)]

Zero32 == [hi |-> 0, lo |-> 0]

----------------------------------------------------------------------------
(* The upstream bridge.  A device of pci_devs is                           *)
(*   [bdf, htype, bus_sec, bus_sub, memory_base, memory_limit]             *)
(* htype is the raw PCI_HEADER_TYPE byte (bit 7: multi-function).          *)

IsBridge(d) == BitAnd(d.htype, 127) = PCI_HEADER_TYPE_BRIDGE

BehindBridge(d, bus) == bus >= d.bus_sec /\ bus <= d.bus_sub

\* atapromise.c: the index of the first bridge whose bus range holds dev->bus, 0 for NULL
RECURSIVE atapromise_find_bridge_from(_, _, _)
atapromise_find_bridge_from(devs, bus, k) ==
    IF k > Len(devs) THEN 0
    ELSE IF ~IsBridge(devs[k]) THEN atapromise_find_bridge_from(devs, bus, k + 1)
    ELSE IF BehindBridge(devs[k], bus) THEN k
    ELSE atapromise_find_bridge_from(devs, bus, k + 1)

atapromise_find_bridge(devs, bus) == atapromise_find_bridge_from(devs, bus, 1)

\* The two conditional register writes shared by both revisions: reg16 is the
\* masked high word of BAR5, inc what is added to it before the limit test.
LimitCandidate(reg16, inc) == (reg16 + inc) % Word16

BridgeWindowWrites(d, bar5hi, inc) ==
    LET reg16 == BitAnd(bar5hi, 65520)
        d1    == IF reg16 < d.memory_base
                 THEN [d EXCEPT !.memory_base = reg16] ELSE d
        cand  == LimitCandidate(reg16, inc)
    IN IF cand < d1.memory_limit
       THEN [d1 EXCEPT !.memory_limit = cand] ELSE d1

\* atapromise.c: always returns 0; the result is the device list afterwards
atapromise_fixup_bridge(devs, e) ==
    LET br == atapromise_find_bridge(devs, e.dev_bus)
    IN IF br = 0 THEN devs
       ELSE [devs EXCEPT ![br] = BridgeWindowWrites(devs[br], e.bar5.hi,
                                                    MAX_ROM_DECODE \div 1024)]

\* part_002: the "bridge" parameter is [kind, match]: kind is "absent", "none",
\* "auto", "slot" (a locator pci_filter_parse_slot accepts; match is the set of
\* bdf it matches) or "invalid" (a locator it rejects).  The result is [err, br].
RECURSIVE find_bridge_loop(_, _, _, _)
find_bridge_loop(devs, bus, prm, k) ==
    LET explicit == prm.kind = "slot"
    IN IF k > Len(devs)
       THEN [err |-> IF explicit THEN 1 ELSE 0, br |-> 0]
       ELSE IF explicit /\ devs[k].bdf \notin prm.match
       THEN find_bridge_loop(devs, bus, prm, k + 1)
       ELSE IF ~explicit /\ ~IsBridge(devs[k])
       THEN find_bridge_loop(devs, bus, prm, k + 1)
       ELSE IF ~IsBridge(devs[k]) THEN [err |-> 1, br |-> 0]
       ELSE IF BehindBridge(devs[k], bus) THEN [err |-> 0, br |-> k]
       ELSE IF explicit THEN [err |-> 1, br |-> 0]
       ELSE find_bridge_loop(devs, bus, prm, k + 1)

\* Mutant: a search that fails is taken as "no bridge".
atapromise_find_bridge_param_lenient(devs, bus, prm) ==
    IF prm.kind \in {"none", "invalid"} THEN [err |-> 0, br |-> 0]
    ELSE [find_bridge_loop(devs, bus, prm, 1) EXCEPT !.err = 0]

atapromise_find_bridge_param(devs, bus, prm) ==
    IF prm.kind = "none" THEN [err |-> 0, br |-> 0]
    ELSE IF prm.kind = "invalid" THEN [err |-> 1, br |-> 0]
    ELSE find_bridge_loop(devs, bus, prm, 1)

\* part_002: [ret, devs]
atapromise_bridge_fixup(devs, e) ==
    LET f == atapromise_find_bridge_param(devs, e.dev_bus, e.bridge)
    IN IF f.err # 0 THEN [ret |-> 1, devs |-> devs]
       ELSE IF f.br = 0 THEN [ret |-> 0, devs |-> devs]
       ELSE [ret |-> 0,
             devs |-> [devs EXCEPT ![f.br] =
                          BridgeWindowWrites(devs[f.br], e.bar5.hi, 32)]]

\* part_000: the limit test is made in int, (reg16 + 0x10) < limit, and the sum is
\* cut to 16 bits when it is written.
BridgeWindowWrites_000(d, bar5hi) ==
    LET reg16 == BitAnd(bar5hi, 65520)
        d1    == IF reg16 < d.memory_base
                 THEN [d EXCEPT !.memory_base = reg16] ELSE d
    IN IF reg16 + 16 < d1.memory_limit
       THEN [d1 EXCEPT !.memory_limit = (reg16 + 16) % Word16] ELSE d1

\* part_000: [ret, devs]
atapromise_bridge_fixup_000(devs, e) ==
    LET f == atapromise_find_bridge_param(devs, e.dev_bus, e.bridge)
    IN IF f.err # 0 THEN [ret |-> 1, devs |-> devs]
       ELSE IF f.br = 0 THEN [ret |-> 0, devs |-> devs]
       ELSE [ret |-> 0,
             devs |-> [devs EXCEPT ![f.br] = BridgeWindowWrites_000(devs[f.br], e.bar5.hi)]]

----------------------------------------------------------------------------
(* The chip descriptor (struct flashchip): [total_size, page_size,         *)
(* block_erasers], total_size in kB; a block eraser is                     *)
(* [size, count, block_erase]: eraseblocks[0].size and .count, and the     *)
(* erase function (0 for NULL).                                            *)

\* The value of the loop index i when the loop ends: the first slot whose
\* eraseblocks[0].size equals size, NUM_ERASEFUNCTIONS + 1 when there is none
\* (slots are numbered from 1 here, from 0 in C).
RECURSIVE FirstWholeChip(_, _, _)
FirstWholeChip(be, size, i) ==
    IF i > NUM_ERASEFUNCTIONS THEN i
    ELSE IF be[i].size = size THEN i
    ELSE FirstWholeChip(be, size, i + 1)

\* Mutant: the size test reads >= where the code reads >.
atapromise_fixup_chip_ge(chip, latch, window) ==
    IF latch THEN [chip |-> chip, once |-> latch]
    ELSE
      LET size == chip.total_size * 1024
          i    == FirstWholeChip(chip.block_erasers, size, 1)
          be   == [k \in 1..NUM_ERASEFUNCTIONS |->
                     IF k < i
                     THEN [chip.block_erasers[k] EXCEPT !.count = 0, !.block_erase = 0]
                     ELSE IF k = i
                     THEN [chip.block_erasers[k] EXCEPT !.size = window]
                     ELSE chip.block_erasers[k]]
      IN IF size >= window
         THEN IF i # NUM_ERASEFUNCTIONS + 1
              THEN [chip |-> [total_size    |-> window \div 1024,
                              page_size     |-> IF chip.page_size > window
                                                THEN window ELSE chip.page_size,
                              block_erasers |-> be],
                    once |-> TRUE]
              ELSE [chip |-> [chip EXCEPT !.block_erasers = be], once |-> TRUE]
         ELSE [chip |-> chip, once |-> TRUE]

\* Mutant: the latch is not static (every call finds it false) and the shrink
\* leaves total_size as it was.
atapromise_fixup_chip_unlatched(chip, latch, window) ==
    LET size == chip.total_size * 1024
        i    == FirstWholeChip(chip.block_erasers, size, 1)
        be   == [k \in 1..NUM_ERASEFUNCTIONS |->
                   IF k < i
                   THEN [chip.block_erasers[k] EXCEPT !.count = 0, !.block_erase = 0]
                   ELSE IF k = i
                   THEN [chip.block_erasers[k] EXCEPT !.size = window]
                   ELSE chip.block_erasers[k]]
    IN IF size > window
       THEN IF i # NUM_ERASEFUNCTIONS + 1
            THEN [chip |-> [total_size    |-> chip.total_size,
                            page_size     |-> IF chip.page_size > window
                                              THEN window ELSE chip.page_size,
                            block_erasers |-> be],
                  once |-> TRUE]
            ELSE [chip |-> [chip EXCEPT !.block_erasers = be], once |-> TRUE]
       ELSE [chip |-> chip, once |-> TRUE]

\* Mutant: the latch is set only by a call that finds the chip larger than the
\* window.
atapromise_fixup_chip_lazy(chip, latch, window) ==
    IF latch THEN [chip |-> chip, once |-> latch]
    ELSE
      LET size == chip.total_size * 1024
          i    == FirstWholeChip(chip.block_erasers, size, 1)
          be   == [k \in 1..NUM_ERASEFUNCTIONS |->
                     IF k < i
                     THEN [chip.block_erasers[k] EXCEPT !.count = 0, !.block_erase = 0]
                     ELSE IF k = i
                     THEN [chip.block_erasers[k] EXCEPT !.size = window]
                     ELSE chip.block_erasers[k]]
      IN IF size > window
         THEN IF i # NUM_ERASEFUNCTIONS + 1
              THEN [chip |-> [total_size    |-> window \div 1024,
                              page_size     |-> IF chip.page_size > window
                                                THEN window ELSE chip.page_size,
                              block_erasers |-> be],
                    once |-> TRUE]
              ELSE [chip |-> [chip EXCEPT !.block_erasers = be], once |-> TRUE]
         ELSE [chip |-> chip, once |-> FALSE]

\* atapromise.c: [chip, once] after atapromise_fixup_chip(chip)
atapromise_fixup_chip(chip, latch, window) ==
    IF latch THEN [chip |-> chip, once |-> latch]
    ELSE
      LET size == chip.total_size * 1024
          i    == FirstWholeChip(chip.block_erasers, size, 1)
          be   == [k \in 1..NUM_ERASEFUNCTIONS |->
                     IF k < i
                     THEN [chip.block_erasers[k] EXCEPT !.count = 0, !.block_erase = 0]
                     ELSE IF k = i
                     THEN [chip.block_erasers[k] EXCEPT !.size = window]
                     ELSE chip.block_erasers[k]]
      IN IF size > window
         THEN IF i # NUM_ERASEFUNCTIONS + 1
              THEN [chip |-> [total_size    |-> window \div 1024,
                              page_size     |-> IF chip.page_size > window
                                                THEN window ELSE chip.page_size,
                              block_erasers |-> be],
                    once |-> TRUE]
              ELSE [chip |-> [chip EXCEPT !.block_erasers = be], once |-> TRUE]
         ELSE [chip |-> chip, once |-> TRUE]

\* part_002: [chip, once] after atapromise_chip_fixup(chip); the latch is "called"
atapromise_chip_fixup(chip, latch) ==
    IF latch THEN [chip |-> chip, once |-> latch]
    ELSE
      LET size == chip.total_size * 1024
          i    == FirstWholeChip(chip.block_erasers, size, 1)
          be   == [k \in 1..NUM_ERASEFUNCTIONS |->
                     IF k < i
                     THEN [chip.block_erasers[k] EXCEPT !.block_erase = 0]
                     ELSE IF k = i
                     THEN [chip.block_erasers[k] EXCEPT !.size = PROMISE_MAX_ROM_DECODE]
                     ELSE chip.block_erasers[k]]
      IN IF size > PROMISE_MAX_ROM_DECODE
         THEN IF i # NUM_ERASEFUNCTIONS + 1
              THEN [chip |-> [total_size    |-> PROMISE_MAX_ROM_DECODE \div 1024,
                              page_size     |-> IF chip.page_size > PROMISE_MAX_ROM_DECODE
                                                THEN PROMISE_MAX_ROM_DECODE
                                                ELSE chip.page_size,
                              block_erasers |-> be],
                    once |-> TRUE]
              ELSE [chip |-> [chip EXCEPT !.block_erasers = be], once |-> TRUE]
         ELSE [chip |-> chip, once |-> TRUE]

\* The fix-up chip_readb and chip_writeb start with.  part_000's
\* atapromise_chip_fixup (lines 251-256) changes nothing; part_001 and
\* part_002_ro have none.
Fixup(c) ==
    CASE rev = "atapromise" -> atapromise_fixup_chip(chips[c], once, rom_size)
      [] rev = "part_002"   -> atapromise_chip_fixup(chips[c], once)
      [] OTHER              -> [chip |-> chips[c], once |-> once]

----------------------------------------------------------------------------
(* The program-command tracker of chip_writeb (part_002): [idx, is_data].  *)

\* Mutant: case 2 tests val against 0xaa where the code tests 0xa0.
program_cmd_step_typo(idx, addr, val) ==
    CASE idx = 0 -> [idx     |-> idx + (IF addr = 1365 /\ val = 170 THEN 1 ELSE 0),
                     is_data |-> FALSE]
      [] idx = 1 -> [idx     |-> idx + (IF addr = 682 /\ val = 85 THEN 1 ELSE 0),
                     is_data |-> FALSE]
      [] idx = 2 -> [idx     |-> idx + (IF addr = 1365 /\ val = 170 THEN 1 ELSE 0),
                     is_data |-> FALSE]
      [] idx = 3 -> [idx |-> 0, is_data |-> TRUE]
      [] OTHER   -> [idx |-> 0, is_data |-> FALSE]

program_cmd_step(idx, addr, val) ==
    CASE idx = 0 -> [idx     |-> idx + (IF addr = 1365 /\ val = 170 THEN 1 ELSE 0),
                     is_data |-> FALSE]
      [] idx = 1 -> [idx     |-> idx + (IF addr = 682 /\ val = 85 THEN 1 ELSE 0),
                     is_data |-> FALSE]
      [] idx = 2 -> [idx     |-> idx + (IF addr = 1365 /\ val = 160 THEN 1 ELSE 0),
                     is_data |-> FALSE]
      [] idx = 3 -> [idx |-> 0, is_data |-> TRUE]
      [] OTHER   -> [idx |-> 0, is_data |-> FALSE]

----------------------------------------------------------------------------
(* The transport word and the I/O of one call.                             *)

\* uint32_t data = (rom_base_addr + (addr & mask)) << 8 | val
TransportWord(base, addr, val, mask) ==
    Or32(Shl8(Add32(base, BitAnd(addr, mask))), val)

PortWrite(port, width, data) == [port |-> port, width |-> width, data |-> data]

\* io: op is the call ("init", "read", "write"); addr and val its arguments; first
\* whether the descriptor passed in had not been passed in before; outs the port
\* writes it issued, in order; off the offset into the mapping of its loads and
\* nreads how many loads it made (polls of them in the read-back loop, match the
\* poll that returned val) and nstores how many stores; is_data the flag
\* chip_writeb computed.
NoIo == [op |-> "none", addr |-> 0, val |-> 0, first |-> FALSE, outs |-> <<>>,
         off |-> 0, nreads |-> 0, polls |-> 0, match |-> 0, nstores |-> 0,
         is_data |-> FALSE]

----------------------------------------------------------------------------
(* atapromise_init.  env is [io_perms_ok, dev_found, dev_bus, device_id,   *)
(* dev_rom_size, bar4, bar5, allow32k, bridge, map_ok]: whether            *)
(* rget_io_perms and pcidev_init succeed, the controller's bus, device id  *)
(* and dev->rom_size, what pcidev_readbar returns for BAR4 and BAR5, the   *)
(* programmer parameters "allow32k" ([present, text]) and "bridge", and    *)
(* whether rphysmap succeeds; reg_shutdown_ok: whether register_shutdown   *)
(* succeeds; rom_reg0: what config register 0x30 holds before init;        *)
(* probe_readback: what the register reads back once the probe pattern     *)
(* has been written to it (the hardware decides).                          *)

\* Mutant: any allow32k at all counts.
atapromise_allow32k_any(prm) == prm.present

\* atapromise.c: p[0] of the parameter's text (an empty text has p[0] = 0)
atapromise_allow32k(prm) ==
    /\ prm.present
    /\ Len(prm.text) > 0
    /\ prm.text[1] \in {"1", "y", "Y"}

\* What init leaves behind when it returns at its first two tests.
InitUntouched ==
    [ret |-> 1, devs |-> pci_devs, io_base_addr |-> io_base_addr,
     rom_base_addr |-> rom_base_addr, rom_size |-> rom_size, maplen |-> maplen,
     atapromise_bar |-> atapromise_bar, bios_rom_addr_data |-> bios_rom_addr_data,
     max_rom_decode_parallel |-> max_rom_decode_parallel,
     registered |-> registered, outs |-> <<>>,
     mapped_len |-> mapped_len, rom_reg |-> rom_reg,
     shutdown_registered |-> shutdown_registered]

\* Mutant: BAR5 is not tested for zero.
init_atapromise_nobar5(e, devs) ==
    IF ~e.io_perms_ok \/ ~e.dev_found THEN InitUntouched
    ELSE
      LET s1 == [InitUntouched EXCEPT
                    !.devs = atapromise_fixup_bridge(devs, e),
                    !.io_base_addr = BitAnd(e.bar4, 65534)]
          s2 == [s1 EXCEPT
                    !.outs = <<PortWrite(s1.io_base_addr + 16, 8, [hi |-> 0, lo |-> 1])>>,
                    !.rom_base_addr = e.bar5]
          s3 == [s2 EXCEPT
                    !.rom_size = IF atapromise_allow32k(e.allow32k)
                                 THEN 32 * 1024 ELSE 16 * 1024]
          s4 == [s3 EXCEPT
                    !.atapromise_bar = IF e.map_ok THEN "MAPPED" ELSE "ERROR_PTR",
                    !.mapped_len = IF e.map_ok THEN s3.rom_size ELSE 0]
      IN IF s1.io_base_addr = 0 THEN s1
         ELSE IF atapromise_allow32k(e.allow32k) /\ e.dev_rom_size < 32 * 1024 THEN s2
         ELSE IF ~e.map_ok THEN s4
         ELSE [s4 EXCEPT !.max_rom_decode_parallel = s4.rom_size,
                         !.registered = TRUE,
                         !.ret = 0]

\* atapromise.c, lines 186-238
init_atapromise(e, devs) ==
    IF ~e.io_perms_ok \/ ~e.dev_found THEN InitUntouched
    ELSE
      LET s1 == [InitUntouched EXCEPT
                    !.devs = atapromise_fixup_bridge(devs, e),
                    !.io_base_addr = BitAnd(e.bar4, 65534)]
          s2 == [s1 EXCEPT
                    !.outs = <<PortWrite(s1.io_base_addr + 16, 8, [hi |-> 0, lo |-> 1])>>,
                    !.rom_base_addr = e.bar5]
          s3 == [s2 EXCEPT
                    !.rom_size = IF atapromise_allow32k(e.allow32k)
                                 THEN 32 * 1024 ELSE 16 * 1024]
          s4 == [s3 EXCEPT
                    !.atapromise_bar = IF e.map_ok THEN "MAPPED" ELSE "ERROR_PTR",
                    !.mapped_len = IF e.map_ok THEN s3.rom_size ELSE 0]
      IN IF s1.io_base_addr = 0 THEN s1
         ELSE IF s2.rom_base_addr = Zero32 THEN s2
         ELSE IF atapromise_allow32k(e.allow32k) /\ e.dev_rom_size < 32 * 1024 THEN s2
         ELSE IF ~e.map_ok THEN s4
         ELSE [s4 EXCEPT !.max_rom_decode_parallel = s4.rom_size,
                         !.registered = TRUE,
                         !.ret = 0]

\* part_002, lines 221-278
init_part_002(e, devs) ==
    IF ~e.io_perms_ok \/ ~e.dev_found THEN InitUntouched
    ELSE
      LET b  == atapromise_bridge_fixup(devs, e)
          s1 == [InitUntouched EXCEPT
                    !.devs = b.devs,
                    !.io_base_addr = BitAnd(e.bar4, 65534)]
          s2 == [s1 EXCEPT
                    !.outs = <<PortWrite(s1.io_base_addr + 16, 8, [hi |-> 0, lo |-> 1])>>,
                    !.rom_base_addr = e.bar5]
          s3 == [s2 EXCEPT
                    !.maplen = IF e.dev_rom_size > PROMISE_MAX_ROM_DECODE
                               THEN PROMISE_MAX_ROM_DECODE ELSE e.dev_rom_size]
          s4 == [s3 EXCEPT
                    !.atapromise_bar = IF e.map_ok THEN "MAPPED" ELSE "ERROR_PTR",
                    !.mapped_len = IF e.map_ok THEN s3.maplen ELSE 0]
      IN IF b.ret # 0 THEN InitUntouched
         ELSE IF s1.io_base_addr = 0 THEN s1
         ELSE IF s2.rom_base_addr = Zero32 THEN s2
         ELSE IF ~e.map_ok THEN s4
         ELSE IF e.device_id \notin {19760, 19768, 3376} THEN s4
         ELSE [s4 EXCEPT !.bios_rom_addr_data = 20,
                         !.max_rom_decode_parallel = PROMISE_MAX_ROM_DECODE,
                         !.registered = TRUE,
                         !.ret = 0]

\* part_000, lines 199-205: the size in kB the probe settles on, from the two
\* words read back
probe_000(readback) ==
    IF BitAnd(readback.lo, 49152) # 0 THEN 16
    ELSE IF BitAnd(readback.hi, 1) # 0 THEN 64 ELSE 128

\* Mutant: only bit 15 is taken as the 16 kB flag.
probe_001_bit15(romaddr) ==
    IF BitAnd(romaddr.lo, 32768) # 0 THEN 16
    ELSE IF BitAnd(romaddr.hi, 1) # 0 THEN 128 ELSE 64

\* part_001, lines 117-122: romaddr & 0x10000 is bit 0 of the high word
probe_001(romaddr) ==
    IF BitAnd(romaddr.lo, 49152) # 0 THEN 16
    ELSE IF BitAnd(romaddr.hi, 1) # 0 THEN 128 ELSE 64

\* part_000, lines 181-249
init_part_000(e, devs) ==
    IF ~e.io_perms_ok \/ ~e.dev_found THEN InitUntouched
    ELSE
      LET b     == atapromise_bridge_fixup_000(devs, e)
          saved == rom_reg   \* pci_read_long(dev, 0x30); written back at line 209
          s0 == [InitUntouched EXCEPT
                    !.devs = b.devs,
                    !.maplen = probe_000(e.probe_readback),
                    !.rom_reg = saved]
          s1 == [s0 EXCEPT !.io_base_addr = BitAnd(e.bar4, 65534)]
          s2 == [s1 EXCEPT
                    !.outs = <<PortWrite(s1.io_base_addr + 16, 8, [hi |-> 0, lo |-> 1])>>,
                    !.rom_base_addr = e.bar5]
          s3 == [s2 EXCEPT !.maplen = 128 * 1024]
          s4 == [s3 EXCEPT
                    !.atapromise_bar = IF e.map_ok THEN "MAPPED" ELSE "ERROR_PTR",
                    !.mapped_len = IF e.map_ok THEN s3.maplen ELSE 0]
      IN IF b.ret # 0 THEN InitUntouched
         ELSE IF s1.io_base_addr = 0 THEN s1
         ELSE IF s2.rom_base_addr = Zero32 THEN s2
         ELSE IF ~e.map_ok THEN s4
         ELSE IF e.device_id \notin {19760, 19768, 3376} THEN s4
         ELSE [s4 EXCEPT !.bios_rom_addr_data = 20,
                         !.registered = TRUE,
                         !.ret = 0]

\* part_001, lines 89-150
init_part_001(e, devs) ==
    IF ~e.io_perms_ok \/ ~e.dev_found THEN InitUntouched
    ELSE
      LET s1 == [InitUntouched EXCEPT !.io_base_addr = BitAnd(e.bar4, 65534)]
          s2 == [s1 EXCEPT
                    !.outs = <<PortWrite(s1.io_base_addr + 16, 8, [hi |-> 0, lo |-> 1])>>,
                    !.rom_base_addr = e.bar5]
          s3 == [s2 EXCEPT
                    !.rom_reg = e.probe_readback,
                    !.maplen = probe_001(e.probe_readback) * 1024]
          s4 == [s3 EXCEPT
                    !.atapromise_bar = IF e.map_ok THEN "MAPPED" ELSE "ERROR_PTR",
                    !.mapped_len = IF e.map_ok THEN s3.maplen ELSE 0]
          s5 == [s4 EXCEPT !.shutdown_registered = TRUE]
      IN IF s1.io_base_addr = 0 THEN s1
         ELSE IF s2.rom_base_addr = Zero32 THEN s2
         ELSE IF ~e.map_ok THEN s4
         ELSE IF ~e.reg_shutdown_ok THEN s4
         ELSE IF e.device_id \notin {19760, 19768, 3376} THEN s5
         ELSE [s5 EXCEPT !.bios_rom_addr_data = 20,
                         !.max_rom_decode_parallel = 128 * 1024,
                         !.registered = TRUE,
                         !.ret = 0]

\* part_002, lines 441-486 (bios_rom_addr there is bios_rom_addr_data here)
init_part_002_ro(e, devs) ==
    IF ~e.io_perms_ok \/ ~e.dev_found THEN InitUntouched
    ELSE
      LET s1 == [InitUntouched EXCEPT !.io_base_addr = BitAnd(e.bar4, 65534)]
          s2 == [s1 EXCEPT !.rom_base_addr = e.bar5]
          s3 == [s2 EXCEPT !.shutdown_registered = TRUE]
          s4 == [s3 EXCEPT
                    !.maplen = e.dev_rom_size,
                    !.atapromise_bar = IF e.map_ok THEN "MAPPED" ELSE "ERROR_PTR",
                    !.mapped_len = IF e.map_ok THEN e.dev_rom_size ELSE 0]
      IN IF s1.io_base_addr = 0 THEN s1
         ELSE IF s2.rom_base_addr = Zero32 THEN s2
         ELSE IF ~e.reg_shutdown_ok THEN s2
         ELSE IF ~e.map_ok THEN s4
         ELSE IF e.device_id \notin {19760, 19768, 3376} THEN s4
         ELSE [s4 EXCEPT !.bios_rom_addr_data = 20,
                         !.outs = <<PortWrite(s1.io_base_addr + 16, 8, [hi |-> 0, lo |-> 1])>>,
                         !.registered = TRUE,
                         !.ret = 0]

atapromise_init ==
    /\ phase = "start"
    /\ LET r == CASE rev = "atapromise"  -> init_atapromise(env, pci_devs)
                  [] rev = "part_000"    -> init_part_000(env, pci_devs)
                  [] rev = "part_001"    -> init_part_001(env, pci_devs)
                  [] rev = "part_002"    -> init_part_002(env, pci_devs)
                  [] rev = "part_002_ro" -> init_part_002_ro(env, pci_devs)
       IN /\ phase' = IF r.ret = 0 THEN "ready" ELSE "failed"
          /\ pci_devs' = r.devs
          /\ io_base_addr' = r.io_base_addr
          /\ rom_base_addr' = r.rom_base_addr
          /\ rom_size' = r.rom_size
          /\ maplen' = r.maplen
          /\ atapromise_bar' = r.atapromise_bar
          /\ bios_rom_addr_data' = r.bios_rom_addr_data
          /\ max_rom_decode_parallel' = r.max_rom_decode_parallel
          /\ registered' = r.registered
          /\ mapped_len' = r.mapped_len
          /\ rom_reg' = r.rom_reg
          /\ shutdown_registered' = r.shutdown_registered
          /\ io' = [NoIo EXCEPT !.op = "init", !.outs = r.outs]
    /\ UNCHANGED <<rev, env, chips, once, program_cmd_idx, wlog, snap, shutdowns, unmaps>>

\* part_001, lines 78-87, and part_002, lines 428-439: run by the shutdown
\* machinery once it is registered, also after an init that failed.
atapromise_shutdown ==
    /\ phase \in {"ready", "failed"}
    /\ shutdown_registered
    /\ shutdowns < MaxShutdowns
    /\ shutdowns' = shutdowns + 1
    /\ IF atapromise_bar # "NULL"
       THEN /\ unmaps' = Append(unmaps, [ptr |-> atapromise_bar, len |-> maplen])
            /\ atapromise_bar' = "NULL"
            /\ maplen' = 0
       ELSE UNCHANGED <<unmaps, atapromise_bar, maplen>>
    /\ io' = [NoIo EXCEPT !.op = "shutdown"]
    /\ UNCHANGED <<rev, env, pci_devs, chips, phase, io_base_addr, rom_base_addr,
                   rom_size, mapped_len, rom_reg, shutdown_registered,
                   bios_rom_addr_data, max_rom_decode_parallel, registered, once,
                   program_cmd_idx, wlog, snap>>

----------------------------------------------------------------------------
(* The transport.  The caller passes the descriptor (flash->chip), the     *)
(* address and, for a write, the value.                                    *)

Addrs == {682, 1365, 17749, 34133}

Vals == {85, 160, 170}

Snapshot(c, chip) ==
    IF snap[c].set THEN snap ELSE [snap EXCEPT ![c] = [set |-> TRUE, chip |-> chip]]

\* What chip_readb adds to addr: atapromise.c line 254, part_000 line 339,
\* part_001 line 210, part_002 lines 355 and 546.
ReadOffset(addr) ==
    CASE rev = "atapromise" -> BitAnd(addr, ADDR_MASK)
      [] rev = "part_002"   -> BitAnd(addr, PROMISE_ADDR_MASK)
      [] rev = "part_000"   -> BitAnd(addr, PROMISE_ADDR_MASK_000)
      [] OTHER              -> addr

\* atapromise.c, lines 250-255; part_000, lines 336-340; part_001, lines 207-212;
\* part_002, lines 351-356 and 543-547
atapromise_chip_readb ==
    /\ phase = "ready"
    /\ shutdowns = 0
    /\ \E c \in 1..NumChips, addr \in Addrs :
         LET f == Fixup(c)
         IN /\ chips' = [chips EXCEPT ![c] = f.chip]
            /\ once' = f.once
            /\ snap' = Snapshot(c, f.chip)
            /\ io' = [NoIo EXCEPT
                        !.op = "read", !.addr = addr, !.first = ~snap[c].set,
                        !.off = ReadOffset(addr),
                        !.nreads = 1]
    /\ UNCHANGED <<rev, env, pci_devs, phase, io_base_addr, rom_base_addr, rom_size,
                   maplen, atapromise_bar, mapped_len, rom_reg, shutdown_registered,
                   shutdowns, unmaps, bios_rom_addr_data,
                   max_rom_decode_parallel, registered, program_cmd_idx, wlog>>

\* What a chip_writeb that runs no read-back loop leaves in io.
NoReadback == [is_data |-> FALSE, nreads |-> 0, polls |-> 0, match |-> 0, nstores |-> 0]

\* Mutant: the loop does not leave at the poll that matches.
Readback_nobreak(match) ==
    [is_data |-> TRUE, nreads |-> ReadbackStart, polls |-> ReadbackStart - 1,
     match |-> match, nstores |-> 0]

\* `while (--i) { if (chip_readb(flash, addr) == val) break; }` entered with
\* counter i after n polls; match is the poll that first returns val (0: none).
\* The result is the number of polls made when the loop is left.
RECURSIVE ReadbackLoop(_, _, _)
ReadbackLoop(i, n, match) ==
    IF i - 1 = 0 THEN n
    ELSE IF n + 1 = match THEN n + 1
    ELSE ReadbackLoop(i - 1, n + 1, match)

\* The read-back of a data write (part_002, lines 334-347; part_000, lines
\* 311-324): the loop, then one more chip_readb for the debug message.
Readback(match) ==
    LET polls == ReadbackLoop(ReadbackStart, 0, match)
    IN [is_data |-> TRUE, nreads |-> polls + 1, polls |-> polls, match |-> match,
        nstores |-> 0]

\* atapromise.c, lines 240-248: [outs, idx, rb]
writeb_atapromise(addr, val) ==
    [outs |-> <<PortWrite(io_base_addr + 20, 32,
                          TransportWord(rom_base_addr, addr, val, ADDR_MASK))>>,
     idx  |-> program_cmd_idx,
     rb   |-> NoReadback]

\* Mutant: the writes that advance the tracker are not forwarded to the port.
writeb_part_002_gated(addr, val, match) ==
    LET t == program_cmd_step(program_cmd_idx, addr, val)
    IN [outs |-> IF t.idx > program_cmd_idx THEN <<>>
                 ELSE <<PortWrite(io_base_addr + bios_rom_addr_data, 32,
                                  TransportWord(rom_base_addr, addr, val,
                                                PROMISE_ADDR_MASK))>>,
        idx  |-> t.idx,
        rb   |-> IF t.is_data THEN Readback(match) ELSE NoReadback]

\* part_002, lines 280-349
writeb_part_002(addr, val, match) ==
    LET t == program_cmd_step(program_cmd_idx, addr, val)
    IN [outs |-> <<PortWrite(io_base_addr + bios_rom_addr_data, 32,
                             TransportWord(rom_base_addr, addr, val,
                                           PROMISE_ADDR_MASK))>>,
        idx  |-> t.idx,
        rb   |-> IF t.is_data THEN Readback(match) ELSE NoReadback]

\* part_000, lines 258-334
writeb_part_000(addr, val, match) ==
    LET t == program_cmd_step(program_cmd_idx, addr, val)
    IN [outs |-> <<PortWrite(io_base_addr + bios_rom_addr_data, 32,
                             TransportWord(rom_base_addr, addr, val,
                                           PROMISE_ADDR_MASK_000))>>,
        idx  |-> t.idx,
        rb   |-> IF t.is_data THEN Readback(match) ELSE NoReadback]

\* part_001, lines 153-205: data = addr << 8 | val; in case 3 the ROM base plus
\* addr / 0x1000 is or-ed in and the byte is also stored through the mapping.
writeb_part_001(addr, val) ==
    LET t    == program_cmd_step(program_cmd_idx, addr, val)
        data == Or32(Shl8([hi |-> 0, lo |-> addr]), val)
        more == Shl8(Add32(rom_base_addr, addr \div 4096))
    IN [outs |-> <<PortWrite(io_base_addr + bios_rom_addr_data, 32,
                             IF t.is_data THEN OrWord32(data, more) ELSE data)>>,
        idx  |-> t.idx,
        rb   |-> [NoReadback EXCEPT !.nstores = IF t.is_data THEN 1 ELSE 0]]

\* part_002, lines 490-541: the test at line 495 is always true, so
\* last_write_addr is never read and is left out.
writeb_part_002_ro(addr, val) ==
    [outs |-> <<PortWrite(io_base_addr + bios_rom_addr_data, 32,
                          Or32(Shl8([hi |-> 0, lo |-> addr]), val))>>,
     idx  |-> program_cmd_idx,
     rb   |-> NoReadback]

\* wlog: the current run of consecutive writes that began with (0x555, 0xaa) written
\* while the tracker was at 0 and has so far spelled (0x555, 0xaa), (0x2aa, 0x55),
\* (0x555, 0xa0) and then one more write; empty when the latest writes are no such
\* run.  Each entry keeps the is_data the call computed.  Kept for part_002 only.
UnlockSeq == <<[addr |-> 1365, val |-> 170], [addr |-> 682, val |-> 85],
               [addr |-> 1365, val |-> 160]>>

Spells(k, addr, val) ==
    k > Len(UnlockSeq) \/ (UnlockSeq[k].addr = addr /\ UnlockSeq[k].val = val)

LogWrite(addr, val, is_data) ==
    LET w == [addr |-> addr, val |-> val, is_data |-> is_data]
    IN IF rev # "part_002" THEN wlog
       ELSE IF wlog # <<>> /\ Len(wlog) <= Len(UnlockSeq) /\ Spells(Len(wlog) + 1, addr, val)
       THEN Append(wlog, w)
       ELSE IF program_cmd_idx = 0 /\ Spells(1, addr, val) THEN <<w>>
       ELSE <<>>

\* Which poll of the read-back loop first returns val, which the hardware decides:
\* 0 for none, else 1 .. ReadbackStart - 1.  The model draws none, the two earliest
\* and the two latest; only none when the write is not the data phase.
MatchChoices(addr, val) ==
    IF rev \in {"part_000", "part_002"}
       /\ program_cmd_step(program_cmd_idx, addr, val).is_data
    THEN {0, 1, 2, ReadbackStart - 2, ReadbackStart - 1} ELSE {0}

atapromise_chip_writeb ==
    /\ phase = "ready"
    /\ shutdowns = 0
    /\ \E c \in 1..NumChips, addr \in Addrs, val \in Vals :
       \E match \in MatchChoices(addr, val) :
         LET f == Fixup(c)
             w == CASE rev = "atapromise"  -> writeb_atapromise(addr, val)
                    [] rev = "part_000"    -> writeb_part_000(addr, val, match)
                    [] rev = "part_001"    -> writeb_part_001(addr, val)
                    [] rev = "part_002"    -> writeb_part_002(addr, val, match)
                    [] rev = "part_002_ro" -> writeb_part_002_ro(addr, val)
         IN /\ chips' = [chips EXCEPT ![c] = f.chip]
            /\ once' = f.once
            /\ snap' = Snapshot(c, f.chip)
            /\ program_cmd_idx' = w.idx
            /\ wlog' = LogWrite(addr, val, w.rb.is_data)
            /\ io' = [NoIo EXCEPT
                        !.op = "write", !.addr = addr, !.val = val, !.first = ~snap[c].set,
                        !.outs = w.outs, !.nreads = w.rb.nreads,
                        !.polls = w.rb.polls, !.match = w.rb.match,
                        !.nstores = w.rb.nstores,
                        !.off = IF w.rb.nreads + w.rb.nstores > 0 THEN ReadOffset(addr) ELSE 0,
                        !.is_data = w.rb.is_data]
    /\ UNCHANGED <<rev, env, pci_devs, phase, io_base_addr, rom_base_addr, rom_size,
                   maplen, atapromise_bar, mapped_len, rom_reg, shutdown_registered,
                   shutdowns, unmaps, bios_rom_addr_data,
                   max_rom_decode_parallel, registered>>

\* The chip accessors of a registered master, and shutdown where the revision
\* has one.
NextLife ==
    \/ atapromise_init
    \/ atapromise_chip_readb
    \/ atapromise_chip_writeb
    \/ atapromise_shutdown

Next ==
    \/ atapromise_init
    \/ atapromise_chip_readb
    \/ atapromise_chip_writeb

----------------------------------------------------------------------------
(* Initial states: the environment, the PCI devices and the descriptors    *)
(* are drawn from the sets below; the statics have their C initialisers.   *)

Unused == [size |-> 0, count |-> 0, block_erase |-> 0]

Sector(t) == [size |-> 4096, count |-> (t * 1024) \div 4096, block_erase |-> 1]

WholeChip(t) == [size |-> t * 1024, count |-> 1, block_erase |-> 2]

\* The layouts: sector erasers, then a whole-chip eraser in slot w (none for
\* w = 0), then the remaining slots all unused, all sector or all whole-chip.
Layouts(t) ==
    {[k \in 1..NUM_ERASEFUNCTIONS |->
         IF k = w THEN WholeChip(t) ELSE IF k < w THEN Sector(t) ELSE rest] :
        w \in 0..NUM_ERASEFUNCTIONS, rest \in {Unused, Sector(t), WholeChip(t)}}

\* Sector erasers first, then the whole-chip eraser: the usual flashchips.c order.
UsualLayout(t) ==
    [k \in 1..NUM_ERASEFUNCTIONS |->
        IF k = 1 THEN Sector(t) ELSE IF k = 2 THEN WholeChip(t) ELSE Unused]

ChipsOfSize(t, p) ==
    {[total_size |-> t, page_size |-> p, block_erasers |-> be] : be \in Layouts(t)}

\* 16 kB parts with 256-byte pages and 128 kB parts with 64 kB pages.
AllChips ==
    ChipsOfSize(16, 256) \cup ChipsOfSize(128, 64 * 1024)

UsualChip(t) == [total_size |-> t, page_size |-> 256, block_erasers |-> UsualLayout(t)]

\* The first descriptor from first, the others from rest.
ChipTables(first, rest) ==
    {[c \in 1..NumChips |-> IF c = 1 THEN a ELSE g[c]] :
        a \in first, g \in [1..NumChips -> rest]}

NoParam == [present |-> FALSE, text |-> <<>>]

Param(text) == [present |-> TRUE, text |-> text]

BridgeParam(kind, match) == [kind |-> kind, match |-> match]

\* A controller on bus 2, both BARs assigned, 64 kB of ROM, no parameters.
UsualEnv ==
    [io_perms_ok |-> TRUE, dev_found |-> TRUE, dev_bus |-> 2, device_id |-> 19760,
     dev_rom_size |-> 64 * 1024, bar4 |-> 53248, bar5 |-> [hi |-> 65215, lo |-> 0],
     allow32k |-> NoParam, bridge |-> BridgeParam("absent", {}), map_ok |-> TRUE,
     reg_shutdown_ok |-> TRUE, rom_reg0 |-> [hi |-> 65200, lo |-> 1],
     probe_readback |-> [hi |-> 3, lo |-> 49152]]

Device(k, h, sec, sub, base, limit) ==
    [bdf |-> k, htype |-> h, bus_sec |-> sec, bus_sub |-> sub,
     memory_base |-> base, memory_limit |-> limit]

InitStatics ==
    /\ phase = "start"
    /\ io_base_addr = 0
    /\ rom_base_addr = Zero32
    /\ rom_size = 0
    /\ maplen = 0
    /\ atapromise_bar = "NULL"
    /\ bios_rom_addr_data = 0
    /\ max_rom_decode_parallel = 0
    /\ registered = FALSE
    /\ mapped_len = 0
    /\ rom_reg = env.rom_reg0
    /\ shutdown_registered = FALSE
    /\ shutdowns = 0
    /\ unmaps = <<>>
    /\ once = FALSE
    /\ program_cmd_idx = 0
    /\ io = NoIo
    /\ wlog = <<>>
    /\ snap = [c \in 1..NumChips |-> [set |-> FALSE, chip |-> chips[c]]]

InitFrom(revs, envs, devlists, tables) ==
    /\ rev \in revs
    /\ env \in envs
    /\ pci_devs \in devlists
    /\ chips \in tables
    /\ InitStatics

\* The descriptor fix-up of atapromise.c over every descriptor, 16 kB and 32 kB windows.
ChipEnvs ==
    {[UsualEnv EXCEPT !.allow32k = a] : a \in {NoParam, Param(<<"y">>)}}

InitChip ==
    InitFrom({"atapromise"}, ChipEnvs, {<<>>}, ChipTables(AllChips, {UsualChip(128)}))

SpecChip == InitChip /\ [][Next]_vars

\* The transport and the tracker, both revisions: BAR5 below and above 2^31 (the
\* second with a low half that carries into the high half), BAR4 with the I/O
\* space bit set.
TransportEnvs ==
    {[UsualEnv EXCEPT !.bar5 = b, !.bar4 = 57345] :
        b \in {[hi |-> 4064, lo |-> 0], [hi |-> 65535, lo |-> 49152]}}

InitTransport ==
    InitFrom({"atapromise", "part_002"}, TransportEnvs, {<<>>},
             ChipTables({UsualChip(128)}, {UsualChip(128)}))

SpecTransport == InitTransport /\ [][Next]_vars

\* Init and shutdown.  A case is [rev, env].
\* The gates of init: each of the tests init makes can fail; register_shutdown
\* is drawn only where the revision calls it.
GateEnvs(oks) ==
    {[UsualEnv EXCEPT !.io_perms_ok = io_ok, !.dev_found = found, !.bar4 = b4,
                      !.bar5 = b5, !.map_ok = map, !.device_id = id,
                      !.reg_shutdown_ok = reg] :
        io_ok \in BOOLEAN, found \in BOOLEAN, b4 \in {0, 1, 57345},
        b5 \in {Zero32, [hi |-> 4064, lo |-> 0]}, map \in BOOLEAN,
        id \in {19760, 4660}, reg \in oks}

GateCases ==
    {[rev |-> r, env |-> e] :
        r \in {"atapromise", "part_002"}, e \in GateEnvs({TRUE})}
    \cup
    {[rev |-> r, env |-> e] :
        r \in {"part_001", "part_002_ro"}, e \in GateEnvs(BOOLEAN)}
    \cup
    {[rev |-> "part_002", env |-> [UsualEnv EXCEPT !.bridge = BridgeParam("invalid", {})]]}

InitCases(cases) ==
    /\ \E p \in cases : rev = p.rev /\ env = p.env
    /\ pci_devs = <<>>
    /\ chips = [c \in 1..NumChips |-> UsualChip(128)]
    /\ InitStatics

InitLife == InitCases(GateCases)

SpecLife == InitLife /\ [][NextLife]_vars

\* allow32k (read by atapromise.c only): absent, empty, and texts that do and do
\* not begin with '1', 'y' or 'Y'; dev->rom_size below, at and above 32 kB.
Allow32kParams ==
    {NoParam, Param(<<>>), Param(<<"1">>), Param(<<"y">>), Param(<<"Y">>),
     Param(<<"n">>), Param(<<"0">>), Param(<<"y", "e", "s">>), Param(<<"n", "y">>)}

WindowCases ==
    {[rev |-> "atapromise", env |-> [UsualEnv EXCEPT !.allow32k = a, !.dev_rom_size = n]] :
        a \in Allow32kParams, n \in {16 * 1024, 32 * 1024, 64 * 1024}}

InitWindow == InitCases(WindowCases)

SpecWindow == InitWindow /\ [][Next]_vars

\* The ROM size probe of part_000 and part_001.  What register 0x30 reads back
\* under the probe: 0x3c000, 0x38000, 0x30000 and 0x20000 (a 16, 32, 64 and
\* 128 kB decoder), nothing, and values with the other bits set.  The mapping
\* fails in these sessions but for two readbacks.
ProbeReadbacks ==
    {[hi |-> 3, lo |-> 49152], [hi |-> 3, lo |-> 32768], [hi |-> 3, lo |-> 0],
     [hi |-> 2, lo |-> 0], Zero32, [hi |-> 65535, lo |-> 16383],
     [hi |-> 65534, lo |-> 16383], [hi |-> 65534, lo |-> 65535],
     [hi |-> 0, lo |-> 16384]}

\* part_000 returns at "Failed to read BAR5" and part_001 at the failed
\* physmap, with the probe's result in maplen; both also run a whole session.
ProbeCases ==
    {[rev |-> "part_000",
      env |-> [UsualEnv EXCEPT !.probe_readback = rb, !.rom_reg0 = r0,
                               !.bar5 = Zero32]] :
        rb \in ProbeReadbacks, r0 \in {Zero32, [hi |-> 65200, lo |-> 1]}}
    \cup
    {[rev |-> "part_001",
      env |-> [UsualEnv EXCEPT !.probe_readback = rb, !.rom_reg0 = r0,
                               !.map_ok = FALSE]] :
        rb \in ProbeReadbacks, r0 \in {Zero32, [hi |-> 65200, lo |-> 1]}}
    \cup
    {[rev |-> r, env |-> UsualEnv] : r \in {"part_000", "part_001"}}

InitProbe == InitCases(ProbeCases)

SpecProbe == InitProbe /\ [][NextLife]_vars

\* The bridge fix-up.  A device shape is [htype, bus_sec, bus_sub, memory_base,
\* memory_limit]: bridges over buses 1..3 (where the controller is) with a window
\* 0x1000..0x2000 or 0xff00..0xfff0, one of them multi-function, a bridge over
\* buses 4..5, and an endpoint.
DevShapes ==
    {[htype |-> 1,   bus_sec |-> 1, bus_sub |-> 3, memory_base |-> 4096,  memory_limit |-> 8192],
     [htype |-> 1,   bus_sec |-> 1, bus_sub |-> 3, memory_base |-> 65280, memory_limit |-> 65520],
     [htype |-> 129, bus_sec |-> 1, bus_sub |-> 3, memory_base |-> 4096,  memory_limit |-> 8192],
     [htype |-> 1,   bus_sec |-> 4, bus_sub |-> 5, memory_base |-> 4096,  memory_limit |-> 8192],
     [htype |-> 0,   bus_sec |-> 0, bus_sub |-> 0, memory_base |-> 0,     memory_limit |-> 0]}

\* Every list of at most MaxDevs devices, the k-th at bus:device.function k.
DevLists ==
    UNION {{[k \in 1..n |-> Device(k, f[k].htype, f[k].bus_sec, f[k].bus_sub,
                                   f[k].memory_base, f[k].memory_limit)] :
               f \in [1..n -> DevShapes]} : n \in 0..MaxDevs}

\* BAR5 at 0x10000000, at 0xfebf0000 and at 0xfff00000 (where adding the decode
\* window to the high word passes 2^16); "bridge" absent, "none", a locator that
\* matches the first device, the second or both, and a locator that does not
\* parse.
BridgeBars == {[hi |-> 4096, lo |-> 0], [hi |-> 65215, lo |-> 0], [hi |-> 65520, lo |-> 0]}

BridgeParams ==
    {BridgeParam("absent", {}), BridgeParam("none", {}), BridgeParam("slot", {1}),
     BridgeParam("slot", {2}), BridgeParam("slot", {1, 2}), BridgeParam("invalid", {})}

\* rphysmap fails after the fix-up over every list; it succeeds, and the chip
\* accessors run, behind one bridge.
BridgeCases ==
    {[env  |-> [UsualEnv EXCEPT !.bar5 = b, !.bridge = prm, !.map_ok = FALSE],
      devs |-> l] : b \in BridgeBars, prm \in BridgeParams, l \in DevLists}
    \cup
    {[env  |-> [UsualEnv EXCEPT !.bar5 = [hi |-> 4096, lo |-> 0]],
      devs |-> <<Device(1, 1, 1, 3, 4096, 8192)>>]}

InitBridge ==
    /\ rev \in {"atapromise", "part_002"}
    /\ \E p \in BridgeCases : env = p.env /\ pci_devs = p.devs
    /\ chips = [c \in 1..NumChips |-> UsualChip(128)]
    /\ InitStatics

SpecBridge == InitBridge /\ [][Next]_vars

----------------------------------------------------------------------------
(* Properties.                                                             *)

\* The bridge the fix-up of this session acts on (0: none, or init returned
\* before or in the search), and the masked high word of BAR5.
FixedBridge ==
    IF ~env.io_perms_ok \/ ~env.dev_found THEN 0
    ELSE IF rev = "atapromise" THEN atapromise_find_bridge(pci_devs, env.dev_bus)
    ELSE LET f == atapromise_find_bridge_param(pci_devs, env.dev_bus, env.bridge)
         IN IF f.err # 0 THEN 0 ELSE f.br

RomBaseHigh == BitAnd(env.bar5.hi, 65520)

\* C1 (as claimed): no step raises a bridge's memory_base or lowers its
\* memory_limit.
C1_WindowOnlyWidens ==
    [][\A k \in 1..Len(pci_devs) :
         /\ pci_devs'[k].memory_base <= pci_devs[k].memory_base
         /\ pci_devs'[k].memory_limit >= pci_devs[k].memory_limit]_vars

\* C2 (as claimed): after init, the window of the bridge that was found covers
\* the ROM aperture: memory_base is at most BAR5's masked high word and
\* memory_limit at least that word plus the increment, in 16-bit arithmetic.
C2_WindowCoversRom ==
    (phase # "start" /\ FixedBridge # 0) =>
        /\ pci_devs[FixedBridge].memory_base <= RomBaseHigh
        /\ pci_devs[FixedBridge].memory_limit >= LimitCandidate(RomBaseHigh, 32)

\* The call of this step is the first chip access of the session, on descriptor c.
FirstAccess(c) == ~once /\ once' /\ ~snap[c].set /\ snap'[c].set

SizeOf(chip) == chip.total_size * 1024

HasWholeChipEraser(chip) ==
    \E k \in 1..NUM_ERASEFUNCTIONS : chip.block_erasers[k].size = SizeOf(chip)

\* Descriptor c is the only one passed in so far.
OnlyAccessed(c) ==
    snap[c].set /\ \A d \in 1..NumChips : d # c => ~snap[d].set

\* Bits 8..31 of a port word, and the low 24 bits of rom_base_addr + a.
WordAddress(w) == w.hi * 256 + w.lo \div 256

BasePlus(a) == ((rom_base_addr.hi % 256) * 65536 + rom_base_addr.lo + a) % (2 ^ 24)

\* C3 (as claimed): a descriptor larger than the decode window that has a
\* whole-chip eraser comes out of the first access with total_size equal to the
\* window, that eraser's size equal to the window and every other eraser's
\* count 0, wherever the whole-chip eraser stands.
C3_ShrunkToOneEraser ==
    [][\A c \in 1..NumChips :
         (FirstAccess(c) /\ SizeOf(chips[c]) > rom_size' /\ HasWholeChipEraser(chips[c]))
         => /\ SizeOf(chips'[c]) = rom_size'
            /\ \E k \in 1..NUM_ERASEFUNCTIONS :
                 /\ chips[c].block_erasers[k].size = SizeOf(chips[c])
                 /\ chips'[c].block_erasers[k].size = rom_size'
                 /\ \A j \in 1..NUM_ERASEFUNCTIONS :
                      j # k => chips'[c].block_erasers[j].count = 0]_vars

\* C4: a descriptor whose capacity is at most the decode window is left as it
\* is by every step (total_size, page_size and every eraser's size, count and
\* erase function).
C4_SmallChipUntouched ==
    [][\A c \in 1..NumChips :
         (rev = "atapromise" /\ SizeOf(chips[c]) <= rom_size) => chips'[c] = chips[c]]_vars

\* C4 witness: the first access was made on a descriptor exactly as large as
\* the window whose slot 0 is a sector eraser, still with its blocks.
C4_Witness ==
    /\ io.op \in {"read", "write"}
    /\ \E c \in 1..NumChips :
         /\ OnlyAccessed(c)
         /\ SizeOf(chips[c]) = rom_size
         /\ chips[c].block_erasers[1].size = 4096
         /\ chips[c].block_erasers[1].count > 0
         /\ HasWholeChipEraser(chips[c])

\* C5 (as claimed): when the descriptor is larger than the window and has no
\* whole-chip eraser, the first access leaves it unchanged and the read or
\* write goes ahead.
C5_FailureLeavesDescriptor ==
    [][\A c \in 1..NumChips :
         (FirstAccess(c) /\ SizeOf(chips[c]) > rom_size' /\ ~HasWholeChipEraser(chips[c]))
         => (chips'[c] = chips[c] /\ io'.op \in {"read", "write"})]_vars

\* C6: once a descriptor has been passed to chip_readb or chip_writeb, it stays
\* what it was when that first call returned, whatever calls follow.
C6_AdjustedOnce ==
    \A c \in 1..NumChips : snap[c].set => chips[c] = snap[c].chip

\* C6 witness: a descriptor was shrunk by its first access (a sector eraser
\* lost its blocks) and the latest call was made on it again.
C6_Witness ==
    /\ io.op \in {"read", "write"}
    /\ ~io.first
    /\ \E c \in 1..NumChips :
         /\ OnlyAccessed(c)
         /\ SizeOf(chips[c]) = rom_size
         /\ chips[c].block_erasers[1] = [size |-> 4096, count |-> 0, block_erase |-> 0]

\* C7: in a run of writes that starts at tracker state 0 and spells
\* (0x555,0xaa), (0x2aa,0x55), (0x555,0xa0), (addr,val), the fourth write and
\* only it is flagged as data; the tracker counts the first three and is back
\* at 0 after the fourth.
C7_FourthWriteIsData ==
    rev = "part_002" =>
        /\ \A k \in 1..Len(wlog) : wlog[k].is_data <=> (k = Len(UnlockSeq) + 1)
        /\ Len(wlog) \in 1..Len(UnlockSeq) => program_cmd_idx = Len(wlog)
        /\ Len(wlog) = Len(UnlockSeq) + 1 => program_cmd_idx = 0

\* C7 witness: the run is complete, its fourth write went to 0x4555.
C7_Witness ==
    /\ Len(wlog) = Len(UnlockSeq) + 1
    /\ wlog[4].addr = 17749
    /\ io.op = "write"
    /\ io.is_data

\* C8 (as claimed): in tracker state 1 or 2 a write that is not the next pair
\* of the unlock sequence puts the tracker at 0, or at 1 if the write is
\* (0x555, 0xaa).
C8_DeviationResets ==
    [][(/\ rev = "part_002"
        /\ io'.op = "write"
        /\ program_cmd_idx \in {1, 2}
        /\ ~Spells(program_cmd_idx + 1, io'.addr, io'.val))
       => program_cmd_idx' = (IF Spells(1, io'.addr, io'.val) THEN 1 ELSE 0)]_vars

C10_MaskedToWindow ==
    (rev = "atapromise" /\ phase = "ready") =>
        /\ io.op = "read" => io.off = io.addr % rom_size
        /\ io.op = "write" =>
             WordAddress(io.outs[1].data) = BasePlus(io.addr % rom_size)

\* C11: init returns 0 exactly when the par master was registered, and it is
\* registered only when I/O permission, the device, the bridge fix-up, a
\* non-zero masked BAR4, a non-zero BAR5, the window choice and the mapping
\* have all succeeded; with either BAR zero init fails and nothing is
\* registered.
C11_AllOrNothing ==
    /\ phase = "start" => ~registered
    /\ phase # "start" => ((phase = "ready") <=> registered)
    /\ registered =>
         /\ env.io_perms_ok
         /\ env.dev_found
         /\ rev = "part_002" => env.bridge.kind # "invalid"
         /\ env.bar4 % Word16 \notin {0, 1}
         /\ env.bar5 # Zero32
         /\ rev = "atapromise" => rom_size \in {16 * 1024, 32 * 1024}
         /\ env.map_ok
         /\ mapped_len > 0
    /\ (phase # "start" /\ (env.bar4 % Word16 \in {0, 1} \/ env.bar5 = Zero32))
         => (phase = "failed" /\ ~registered)

\* C11 witness: part_002 has registered its master and a chip read was made.
C11_Witness ==
    /\ rev = "part_002"
    /\ phase = "ready"
    /\ registered
    /\ io.op = "read"

\* The bridge parameter names a device, or does not parse.
ExplicitBridge == env.bridge.kind \in {"slot", "invalid"}

\* Some function that the locator matches is a bridge over the controller's bus.
MatchingBridge ==
    \E k \in 1..Len(pci_devs) :
        /\ env.bridge.kind = "slot"
        /\ pci_devs[k].bdf \in env.bridge.match
        /\ IsBridge(pci_devs[k])
        /\ BehindBridge(pci_devs[k], env.dev_bus)

C13_ReleasedOnce ==
    /\ Len(unmaps) <= 1
    /\ \A k \in 1..Len(unmaps) : unmaps[k].ptr = "MAPPED"
    /\ (shutdowns >= 1 /\ mapped_len > 0) => Len(unmaps) = 1

\* C14: in atapromise.c the window is 32 kB when allow32k is given and begins
\* with '1', 'y' or 'Y', else 16 kB; after a successful init rom_size,
\* max_rom_decode.parallel and the mapping length all are the window; with
\* allow32k set and dev->rom_size below 32 kB init fails with nothing mapped
\* and nothing registered.
C14_WindowChoice ==
    LET given  == /\ env.allow32k.present
                  /\ env.allow32k.text # <<>>
                  /\ Head(env.allow32k.text) \in {"1", "y", "Y"}
        window == IF given THEN 32 * 1024 ELSE 16 * 1024
    IN rev = "atapromise" =>
         /\ phase = "ready" =>
              /\ rom_size = window
              /\ max_rom_decode_parallel = window
              /\ mapped_len = window
         /\ (phase # "start" /\ given /\ env.dev_rom_size < 32 * 1024) =>
              /\ phase = "failed"
              /\ atapromise_bar = "NULL"
              /\ mapped_len = 0
              /\ ~registered

\* C14 witness: allow32k=yes on a controller with 32 kB of ROM, init done and a
\* byte written through the 32 kB window.
C14_Witness ==
    /\ rev = "atapromise"
    /\ env.allow32k = Param(<<"y", "e", "s">>)
    /\ env.dev_rom_size = 32 * 1024
    /\ phase = "ready"
    /\ rom_size = 32 * 1024
    /\ io.op = "write"

\* The probe ran in this session: part_000 and part_001 write the probe
\* pattern once the device is found (part_000: and the bridge step passed,
\* part_001: and both BARs read non-zero).
ProbeRan ==
    /\ phase # "start"
    /\ env.io_perms_ok
    /\ env.dev_found
    /\ \/ rev = "part_000" /\ env.bridge.kind # "invalid"
       \/ /\ rev = "part_001"
          /\ env.bar4 % Word16 \notin {0, 1}
          /\ env.bar5 # Zero32

\* C15 (as claimed): once init has returned on a path that wrote the probe
\* pattern, the ROM address register holds the value it had before init.
C15_ProbeRestored == ProbeRan => rom_reg = env.rom_reg0

\* What the register read back after the probe pattern was written: one of
\* bits 15:14 set, and bit 16.
ProbeFlag == (env.probe_readback.lo \div 16384) % 4 # 0

ProbeBit16 == env.probe_readback.hi % 2 = 1

\* The tier (in kB) for which the session's window claims stand.
ProbedTier ==
    IF ProbeFlag THEN 16
    ELSE IF rev = "part_000" THEN (IF ProbeBit16 THEN 64 ELSE 128)
    ELSE (IF ProbeBit16 THEN 128 ELSE 64)

\* The probe's result is still in maplen: init returned between the probe and
\* the next assignment to maplen (part_000, kB), or at a failed physmap
\* (part_001, bytes).
ProbeVisible ==
    /\ ProbeRan
    /\ phase = "failed"
    /\ \/ rev = "part_000" /\ env.bar4 % Word16 \notin {0, 1} /\ env.bar5 = Zero32
       \/ rev = "part_001" /\ ~env.map_ok

ProbeResult == IF rev = "part_000" THEN maplen ELSE maplen \div 1024

\* C16: the probe's result is 16 kB whenever one of bits 15:14 reads back set,
\* whatever the other bits; otherwise it is 64 or 128 kB and depends on bit 16
\* alone; it is always one of 16, 32, 64, 128 kB.
C16_ProbeTiers ==
    ProbeVisible =>
        /\ ProbeResult \in {16, 32, 64, 128}
        /\ ProbeFlag => ProbeResult = 16
        /\ ~ProbeFlag => (ProbeResult \in {64, 128} /\ ProbeResult = ProbedTier)
        /\ rev = "part_001" => maplen = ProbeResult * 1024

\* C16 witness: part_001 read back 0x00004000 (bit 14 alone) and returned at
\* the failed physmap with maplen 16 kB.
C16_Witness ==
    /\ ProbeVisible
    /\ rev = "part_001"
    /\ env.probe_readback = [hi |-> 0, lo |-> 16384]
    /\ maplen = 16 * 1024

\* C17 (as claimed): after a successful init the mapping's length and the
\* published max_rom_decode.parallel are the probed tier.
C17_ProbedWindowUsed ==
    (ProbeRan /\ phase = "ready") =>
        /\ mapped_len = ProbedTier * 1024
        /\ max_rom_decode_parallel = ProbedTier * 1024

\* C18: a write flagged as data polls chip_readb at least once and at most 30
\* times, stops at the first poll that returns val, and when no poll matches
\* it still returns with its one port write issued and the session usable.
C18_BoundedReadback ==
    (io.op = "write" /\ io.is_data) =>
        /\ io.polls >= 1
        /\ io.polls <= 30
        /\ io.match # 0 => io.polls = io.match
        /\ io.match = 0 => io.polls = ReadbackStart - 1
        /\ io.nreads <= io.polls + 1
        /\ Len(io.outs) = 1
        /\ phase = "ready"

\* C18 witness: a data write in part_002 none of whose polls matched.
C18_Witness ==
    /\ rev = "part_002"
    /\ io.op = "write"
    /\ io.is_data
    /\ io.match = 0
    /\ io.polls = 29
    /\ Len(io.outs) = 1

\* C19 (as claimed): the offset of every load chip_readb makes is below the
\* length that init mapped.
C19_ReadInsideMapping ==
    (rev \in {"atapromise", "part_002"} /\ io.nreads > 0) => io.off < mapped_len

\* C20: every chip_readb and chip_writeb leaves the latch set, the latch is
\* never cleared, and once it is set no step changes any descriptor.
C20_LatchFreezesAll ==
    [][/\ io'.op \in {"read", "write"} => once'
       /\ once => (once' /\ chips' = chips)]_vars

\* C20 witness: both descriptors have been accessed and the second, with a
\* whole-chip eraser, is still larger than the window: the latch was set by
\* the access to the first.
C20_Witness ==
    /\ once
    /\ snap[1].set
    /\ snap[2].set
    /\ io.op = "write"
    /\ SizeOf(chips[2]) > rom_size
    /\ HasWholeChipEraser(chips[2])
    /\ chips[2].block_erasers[1].count > 0

====
